---- MODULE Spec2Model ----
(***************************************************************************)
(* Model of the CMR client of cumulus-tf/lambdas/cmr:                      *)
(*   - findConcepts / pagedSearch / clearScroll (src/cmr.js), the paged    *)
(*     or scrolled search exposed as one lazy sequence;                    *)
(*   - the retrying HTTP client built by createAxiosClient (retry-axios    *)
(*     attached with retry = 6 and the library's other defaults);          *)
(*   - CMR.publishGranule / unpublishGranule (src/cmr.js) and the publish  *)
(*     handler of src/publishGranule.js.                                   *)
(* One behaviour performs one operation, chosen in Init: a search or a     *)
(* publish.  The CMR server is the environment: its answers are chosen     *)
(* nondeterministically.                                                   *)
(***************************************************************************)
EXTENDS Integers, Sequences, FiniteSets, TLC

VARIABLES
  op,           \* the operation of this run: "search" or "publish"
  \* ---- findConcepts ----
  spc,          \* position of the findConcepts generator
  options,      \* request options of pagedSearch: scrollId header, pageNum, pageSize, scroll
  hits,         \* pagedSearch's _hits
  count,        \* pagedSearch's _count
  page,         \* results of the current page not yet yielded
  yielded,      \* records delivered to the consumer, in order
  attempt,      \* raxConfig.currentRetryAttempt of the GET in flight
  seen,         \* statuses of the failed attempts of the GET in flight
  gets,         \* number of times the GET in flight has been sent
  pageReqs,     \* one entry per client.get call: the options it was called with
  pageResps,    \* one entry per answered client.get call: status and number of records
  clearScrolls, \* scroll ids of the POST /search/clear-scroll requests issued
  clearOutcomes,\* answers to the clear-scroll requests, in the order of the requests
  searchError,  \* {status} of the error thrown by pagedSearch, {} while none is thrown
  decodeError,  \* {error} thrown by options.transformResponse, {} while none is thrown
  srvTotal,     \* server: number of records matching the query
  srvCursor     \* server: records already served in the scroll session

VARIABLES
  \* ---- publish handler (publishGranule.js) ----
  hpc,          \* position of the handler
  granuleUR,    \* GranuleUR of the generated metadata, a string of characters
  dataType,     \* granule.dataType
  dryRun,       \* CMR_DRY_RUN is "true" (or unset)
  publishCalls, \* granule URs passed to CMR.publishGranule, in order
  callResults,  \* outcome of each finished CMR.publishGranule call
  handlerError, \* {status} of the error the handler throws, {} while none is thrown
  \* ---- CMR.publishGranule / unpublishGranule (cmr.js) ----
  ppc,          \* position of the publishGranule call in progress
  putAttempt,   \* raxConfig.currentRetryAttempt of the PUT
  delAttempt,   \* raxConfig.currentRetryAttempt of the DELETE in flight
  nPut,         \* PUT requests sent by the call in progress
  nDelete,      \* DELETE requests sent by the call in progress
  putSeen,      \* statuses of the failed PUT attempts of the call in progress
  delSeen,      \* statuses of the failed attempts of the DELETE in flight
  lastPut,      \* {answer} to the last PUT sent, {} before the first
  lastDel,      \* {status} of the answer to the last DELETE sent, {} before the first
  httpLog       \* requests of the call in progress, a request sent again right
                \* after itself (a plain retry) logged once

VARIABLES
  \* ---- discoverGranules (discoverGranulesCmr.js) ----
  dpc,          \* position of the discovery pipeline
  override,     \* event.config.discoveryDuplicateHandling
  collectionDH, \* event.config.collection.duplicateHandling
  ingestDH,     \* ingestCollectionFull.duplicateHandling
  policy,       \* the policy makeIsNotDuplicateFn was called with
  candidates,   \* granules produced by findConcepts and toGranule, in search order
  cursor,       \* index of the next candidate the filters take
  consulted,    \* granule ids passed to checkGranuleHasNoDuplicate, in order
  buffer,       \* results read ahead by asyncBuffer, not yet taken by the consumer
  delivered,    \* granule ids the consumer has received, in order
  discError     \* {granule id} named by the error the consumer receives, {} while none

VARIABLES
  \* ---- dispatchDiscoverGranules ----
  gpc,          \* position of dispatchDiscoverGranules
  handlerCalls, \* calls of the discovery handler
  filterCalls,  \* calls of the discovery filter (the configured or the default one)
  pulled,       \* granules asyncBuffer has taken from the filter's result
  pending,      \* granules read ahead by asyncBuffer, not yet in the array
  granules      \* the array asyncToArray has built so far

VARIABLES
  \* ---- makeContinuous ----
  cpc,            \* position of the generator findBy
  pagesRequested, \* page numbers given to the lister, in order
  pageItems,      \* items of the latest page not yet yielded
  things,         \* items the consumer has received, in order
  listError       \* {page number} whose response checkResponse rejected, {} while none

VARIABLES
  \* ---- functions applied on their own ----
  input,        \* the arguments of the function of this run
  output        \* {result} once the function has returned, {} before

searchVars == <<spc, options, hits, count, page, yielded, attempt, seen, gets,
                pageReqs, pageResps, clearScrolls, clearOutcomes, searchError, decodeError,
                srvTotal, srvCursor>>

pubVars == <<hpc, granuleUR, dataType, dryRun, publishCalls, callResults, handlerError,
             ppc, putAttempt, delAttempt, nPut, nDelete, putSeen, delSeen, lastPut,
             lastDel, httpLog>>

discVars == <<dpc, override, collectionDH, ingestDH, policy, candidates, cursor, consulted,
              buffer, delivered, discError>>

dispVars == <<gpc, handlerCalls, filterCalls, pulled, pending, granules>>

contVars == <<cpc, pagesRequested, pageItems, things, listError>>

procVars == <<dispVars, contVars>>

restVars == <<discVars, input, output, procVars>>

vars == <<op, searchVars, pubVars, restVars>>

----------------------------------------------------------------------------
(* Bounds of the model *)
MaxHits == 3        \* most records the server holds
MaxPageSize == 2    \* largest pageSize query parameter
MaxPageReqs == 4    \* most client.get calls of one search
MaxPuts == 8        \* most PUT requests of one CMR.publishGranule call
MaxCandidates == 3  \* most granules one discovery search produces
MaxAttempt == 23    \* largest currentRetryAttempt handed to exponentiallyDelay
MaxNameLen == 3    \* longest generated parameter name
MaxGranules == 3    \* most granules a discovery handler returns
MaxPages == 3       \* most pages a lister holds before its empty pages
MaxTemporalLen == 7    \* longest generated temporal value

(* Program constants *)
Retry == 6              \* raxConfig.retry
NoResponseRetries == 2  \* raxConfig.noResponseRetries (retry-axios default, not overridden)

BufferSize == 16        \* I.asyncBuffer(16)
MaxDelayMillis == 32000 \* maxDelayMillis = 32_000

NoToken == "none"       \* an absent cmr-scroll-id header
Tokens == {"T1", "T2"}  \* scroll ids the server may send
NoResponse == 0         \* an error without response (network failure, timeout)

Min(a, b) == IF a < b THEN a ELSE b

Range(lo, hi) == [i \in 1..(hi - lo + 1) |-> lo + i - 1]

Last(q) == q[Len(q)]

----------------------------------------------------------------------------
(* retry-axios, as configured by createAxiosClient *)

\* statusCodesToRetry: the default ranges [100,199], [429,429], [500,599]
statusCodesToRetry == <<<<100, 199>>, <<429, 429>>, <<500, 599>>>>

\* httpMethodsToRetry: the default list
httpMethodsToRetry == {"GET", "HEAD", "PUT", "OPTIONS", "DELETE"}

\* mutant: the retry limit is tested with > instead of >=
shouldRetryRequestOffByOne(method, status, cur) ==
  /\ Retry # 0
  /\ ~(status = NoResponse /\ cur >= NoResponseRetries)
  /\ method \in httpMethodsToRetry
  /\ (status # NoResponse =>
        \E i \in 1..Len(statusCodesToRetry) :
           status >= statusCodesToRetry[i][1] /\ status <= statusCodesToRetry[i][2])
  /\ ~(cur > Retry)

\* RAX.shouldRetryRequest(err), with err.response.status = status (NoResponse
\* when err.response is absent) and config.currentRetryAttempt = cur
shouldRetryRequest(method, status, cur) ==
  /\ Retry # 0
  /\ ~(status = NoResponse /\ cur >= NoResponseRetries)
  /\ method \in httpMethodsToRetry
  /\ (status # NoResponse =>
        \E i \in 1..Len(statusCodesToRetry) :
           status >= statusCodesToRetry[i][1] /\ status <= statusCodesToRetry[i][2])
  /\ ~(cur >= Retry)

----------------------------------------------------------------------------
(* findConcepts / pagedSearch *)

\* validateStatus of the search client: 2xx or 404 resolve, all else rejects
validateStatus(status) == (200 <= status /\ status < 300) \/ status = 404

getScrollId(o) == o.scrollId
\* R.pathOr(1, ['params', 'pageNum']): pageNum 0 stands for an absent parameter
getPageNum(o) == IF o.pageNum = 0 THEN 1 ELSE o.pageNum
getPageSize(o) == o.pageSize

\* mutant: the page number is not advanced
nextOptionsSamePage(o, id) ==
  IF id # NoToken THEN [o EXCEPT !.scrollId = id] ELSE o

nextOptions(o, id) ==
  IF id # NoToken
    THEN [o EXCEPT !.scrollId = id]
    ELSE [o EXCEPT !.pageNum = getPageNum(o) + 1]

\* mutant: the scroll id of the latest answer wins over the one already held
scrollIdOfLatest(o, response) ==
  IF response.scrollId # NoToken THEN response.scrollId ELSE getScrollId(o)

\* getScrollId(options) || getScrollId(response)
scrollIdOf(o, response) ==
  IF getScrollId(o) # NoToken THEN getScrollId(o) ELSE response.scrollId

\* Number(response.headers['cmr-hits']) || _hits  (header 0 = absent or "0")
hitsOf(response, _hits) == IF response.hits # 0 THEN response.hits ELSE _hits

\* mutant: a 404 is ignored whether or not any hits are known
ignoring404Always(response, _hits) == response.status = 404

ignoring404(response, _hits) ==
  response.status = 404 /\ hitsOf(response, _hits) > 0

resultsOf(response) == IF response.status = 404 THEN <<>> ELSE response.data

\* mutant: clearScroll is called for every page without results, also for an
\* ignored 404 after which the search goes on
pagedSearchClearsOnEmpty(o, _hits, _count, response) ==
  LET results == resultsOf(response)
      scrollId == scrollIdOf(o, response)
      h == hitsOf(response, _hits)
      ign == ignoring404(response, _hits)
      skippedPageSize == Min(getPageSize(o), h - _count)
  IN [ results |-> results,
       options |-> nextOptions(o, scrollId),
       hits    |-> h,
       count   |-> _count + (IF ign THEN skippedPageSize ELSE Len(results)),
       more    |-> (Len(results) > 0 \/ ign),
       clear   |-> IF Len(results) > 0 THEN NoToken ELSE scrollId ]

\* the body of pagedSearch's try block for a resolved response: the pair
\* [results, params] it returns (more = TRUE), or the end of the search
\* (more = FALSE); clear is the scroll id it passes to clearScroll (NoToken
\* when it does not call clearScroll)
pagedSearch(o, _hits, _count, response) ==
  LET results == resultsOf(response)
      scrollId == scrollIdOf(o, response)
      h == hitsOf(response, _hits)
      ign == ignoring404(response, _hits)
      skippedPageSize == Min(getPageSize(o), h - _count)
  IN [ results |-> results,
       options |-> nextOptions(o, scrollId),
       hits    |-> h,
       count   |-> _count + (IF ign THEN skippedPageSize ELSE Len(results)),
       more    |-> (Len(results) > 0 \/ ign),
       clear   |-> IF Len(results) > 0 \/ ign THEN NoToken ELSE scrollId ]

\* JSON.parse: does the text parse?  (of the bodies below, only the JSON texts)
parses(body) == body \in {"{}", "{\"items\":[]}"}

\* bodies a response may hold
Bodies == {"{}", "{\"items\":[]}", "<html>", ""}

\* transformUMMJSONResponse on a body that does not parse: the message of the
\* Error it throws, R.tryCatch handing the catcher the raw body
transformUMMJSONResponseMessage(body) == body

\* mutant: the error thrown by the transform carries the request's config, as
\* the errors of axios do
thrownMethodOfRequest(body) == "GET"

\* err.config.method of the error thrown by the transform: a plain Error has
\* no config, so there is no method
thrownMethod(body) == "none"

\* enhancedRequestError: [error.message, errors].filter(Boolean).join(": "),
\* errors being the joined error list of error.response.data ("" without one)
enhancedMessage(message, errors) ==
  IF errors = "" THEN message
  ELSE IF message = "" THEN errors
  ELSE message \o ": " \o errors

\* clearScroll(client, scrollId): nothing is sent without a scroll id
clearScroll(calls, scrollId) ==
  IF scrollId = NoToken THEN calls ELSE Append(calls, scrollId)

\* mutant: the catch block of clearScroll throws the error again
clearScrollRethrows(status) == ~validateStatus(status)

\* does clearScroll throw when its POST is answered with status?  The POST is
\* inside a try block whose catch block only logs
clearScrollThrows(status) == FALSE

\* statuses of the answers to POST /search/clear-scroll
ClearStatuses == {200, 404, 400, 500, NoResponse}

----------------------------------------------------------------------------
(* The CMR search server (environment) *)

\* answers the server may give to a page request that resolves (2xx or 404)
ServerPages(o) ==
  LET size == getPageSize(o)
      scrolled ==
        LET left == srvTotal - srvCursor
            ks == IF left = 0 THEN {0} ELSE 1..Min(size, left)
        IN { [status |-> 200, data |-> Range(srvCursor + 1, srvCursor + k),
              hits |-> srvTotal, scrollId |-> t] : k \in ks, t \in Tokens }
      first == (getPageNum(o) - 1) * size
      numbered ==
        { [status |-> 200,
           data |-> IF first >= srvTotal THEN <<>>
                    ELSE Range(first + 1, Min(first + size, srvTotal)),
           hits |-> srvTotal, scrollId |-> NoToken] }
      notFound == { [status |-> 404, data |-> <<>>, hits |-> 0, scrollId |-> NoToken] }
  IN (IF o.scroll THEN scrolled ELSE numbered) \cup notFound

\* statuses of the answers that reject (NoResponse: no answer at all)
SearchFailures == {NoResponse, 100, 429, 500, 400}

----------------------------------------------------------------------------
(* CMR.publishGranule / unpublishGranule *)

\* mutant: every 422 counts as a parent change, whatever its error list
isParentChangeErrorAny422(answer) == answer.status = 422

\* isParentChangeError(error): status 422 and an error list holding "parent
\* collection cannot be changed" (answer.parentMsg)
isParentChangeError(answer) == answer.status = 422 /\ answer.parentMsg

\* raxConfig.shouldRetry of publishGranule:
\* R.either(isParentChangeError, RAX.shouldRetryRequest)
shouldRetry(answer, cur) ==
  isParentChangeError(answer) \/ shouldRetryRequest("PUT", answer.status, cur)

\* mutant: the hook tests for a 409 conflict instead of a parent change
onRetryAttemptOn409(answer) == answer.status = 409 /\ answer.parentMsg

\* raxConfig.onRetryAttempt of publishGranule: unpublish before the retry?
onRetryAttempt(answer) == isParentChangeError(answer)

\* mutant: the hook does not return the unpublishGranule promise, so its
\* rejection is lost
afterUnpublishIgnored(rejected) == "resend"

\* what the retry does once the unpublishGranule promise returned by
\* onRetryAttempt has settled: the PUT is sent again, or the retry rejects
afterUnpublish(rejected) == IF rejected THEN "reject" ELSE "resend"

\* default validateStatus of axios (PUT, DELETE, POST clients)
isSuccess(status) == 200 <= status /\ status < 300

----------------------------------------------------------------------------
(* Publish handler (publishGranule.js) *)

\* `${granule.dataType}.`
prefixOf(dt) == dt \o <<".">>

\* String.prototype.startsWith
startsWith(str, pre) == Len(pre) <= Len(str) /\ SubSeq(str, 1, Len(pre)) = pre

\* String.prototype.substring(start)
substring(str, start) == SubSeq(str, start + 1, Len(str))

\* the catch block of the handler: publish again with the prefix stripped?
stripsPrefix(status, ur, dt) == status = 409 /\ startsWith(ur, prefixOf(dt))

\* mutant: only the data type is stripped, the dot is kept
strippedURKeepsDot(ur, dt) == substring(ur, Len(dt))

strippedUR(ur, dt) == substring(ur, Len(prefixOf(dt)))

----------------------------------------------------------------------------
(* The CMR ingest server (environment) *)

GranuleURs == { <<"D", ".", "g">>, <<"D", "g">>, <<"g">>, <<"D", ".", "D", ".", "g">> }
DataTypes == { <<"D">> }

PutCreated == [status |-> 201, parentMsg |-> FALSE]
ParentChange == [status |-> 422, parentMsg |-> TRUE]
\* answers to a PUT that reject
PutFailures ==
  { [status |-> st, parentMsg |-> FALSE] : st \in {NoResponse, 429, 500, 409, 422} }
    \cup { ParentChange }

\* statuses of the answers to a DELETE
DeleteStatuses == {200, NoResponse, 500, 404}

\* statuses of the answers to the validation POST
ValidateStatuses == {200, 500, 422}

----------------------------------------------------------------------------
(* exponentiallyDelay *)

RECURSIVE Pow(_, _)
Pow(b, n) == IF n = 0 THEN 1 ELSE b * Pow(b, n - 1)

\* x | 0 (ToInt32) for x = hi * 2^16 + lo, 0 <= lo < 2^16: the value modulo
\* 2^32 in [-2^31, 2^31); x is given in two halves because it exceeds 32 bits
ToInt32(hi, lo) ==
  LET h == hi % 65536
  IN (IF h >= 32768 THEN h - 65536 ELSE h) * 65536 + lo

\* floor(Math.random() * 1000): the whole milliseconds of the jitter
JitterMillis == {0, 1, 500, 999}

\* (2 ** (attempt - 1) + Math.random()) * 1000 | 0
exponentialDelayMillis(currentRetryAttempt, jitter) ==
  LET e == currentRetryAttempt - 1
  IN IF e < 16
       THEN Pow(2, e) * 1000 + jitter
       ELSE ToInt32(Pow(2, e - 16) * 1000, jitter)

\* delayMillis of onDelayedRetryAttempt:
\* Math.min(exponentialDelayMillis, maxDelayMillis)
exponentiallyDelay(currentRetryAttempt, jitter) ==
  Min(exponentialDelayMillis(currentRetryAttempt, jitter), MaxDelayMillis)

----------------------------------------------------------------------------
(* toCanonicalQueryParams / toCanonicalHeaders *)
(* A string is a sequence of characters; a value that is no string is a    *)
(* one-element sequence naming it ("#null", "#true", ...); an object is the *)
(* sequence of its [name, value] pairs in insertion order.                  *)

Lowers == <<"a", "b", "c", "d", "e", "f", "g", "h", "i", "j", "k", "l", "m",
            "n", "o", "p", "q", "r", "s", "t", "u", "v", "w", "x", "y", "z">>
Uppers == <<"A", "B", "C", "D", "E", "F", "G", "H", "I", "J", "K", "L", "M",
            "N", "O", "P", "Q", "R", "S", "T", "U", "V", "W", "X", "Y", "Z">>
Digits == {"0", "1", "2", "3", "4", "5", "6", "7", "8", "9"}

isLower(c) == \E i \in 1..Len(Lowers) : Lowers[i] = c
isUpper(c) == \E i \in 1..Len(Uppers) : Uppers[i] = c
isDigit(c) == c \in Digits

toLowerCaseChar(c) ==
  IF isUpper(c) THEN Lowers[CHOOSE i \in 1..Len(Uppers) : Uppers[i] = c] ELSE c
toUpperCaseChar(c) ==
  IF isLower(c) THEN Uppers[CHOOSE i \in 1..Len(Lowers) : Lowers[i] = c] ELSE c

\* String.prototype.toLowerCase
toLowerCase(str) == [i \in 1..Len(str) |-> toLowerCaseChar(str[i])]

\* stripRegexp /[^A-Z\d\[\]]/ig: the characters camelCase replaces by a word
\* delimiter
isStripped(c) == ~(isLower(c) \/ isUpper(c) \/ isDigit(c) \/ c \in {"[", "]"})

\* the split expressions of no-case, /([a-z0-9])([A-Z])/g and
\* /([A-Z])([A-Z][a-z])/g: is a word delimiter inserted before str[i]?
isSplitBefore(str, i) ==
  /\ i > 1
  /\ \/ (isLower(str[i - 1]) \/ isDigit(str[i - 1])) /\ isUpper(str[i])
     \/ /\ isUpper(str[i - 1]) /\ isUpper(str[i])
        /\ i < Len(str) /\ isLower(str[i + 1])

\* does a word start at str[i]?
isWordStart(str, i) ==
  /\ ~isStripped(str[i])
  /\ i = 1 \/ isStripped(str[i - 1]) \/ isSplitBefore(str, i)

\* is str[i] in the first word (index 0 of the transform)?
inFirstWord(str, i) ==
  \A j \in 1..i : isWordStart(str, j) => \A k \in 1..(j - 1) : isStripped(str[k])

\* what camelCase makes of str[i]: camelCaseTransform lowers the first word;
\* pascalCaseTransform raises the first character of a later word (an
\* underscore is put before a digit) and lowers the rest
camelCaseChar(str, i) ==
  IF isStripped(str[i]) THEN <<>>
  ELSE IF inFirstWord(str, i) THEN <<toLowerCaseChar(str[i])>>
  ELSE IF isWordStart(str, i)
         THEN (IF isDigit(str[i]) THEN <<"_", str[i]>> ELSE <<toUpperCaseChar(str[i])>>)
  ELSE <<toLowerCaseChar(str[i])>>

RECURSIVE camelCaseFrom(_, _)
camelCaseFrom(str, i) ==
  IF i > Len(str) THEN <<>> ELSE camelCaseChar(str, i) \o camelCaseFrom(str, i + 1)

\* camelCase(name, { stripRegexp: /[^A-Z\d\[\]]/ig }) of camel-case
camelCase(str) == camelCaseFrom(str, 1)

\* values that are no strings
True == <<"#true">>
False == <<"#false">>
One == <<"#1">>
Nil == <<"#null">>
Undef == <<"#undefined">>
EmptyList == <<"#[]">>
EmptyString == <<>>

\* R.isNil / R.isEmpty / isNotMissing
isNil(v) == v \in {Nil, Undef}
isEmpty(v) == v \in {EmptyString, EmptyList}
isNotMissing(v) == ~(isNil(v) \/ isEmpty(v))

\* a value an if or R.when takes as true
truthy(v) == v \notin {False, Nil, Undef, EmptyString}

hasName(obj, name) == \E i \in 1..Len(obj) : obj[i].name = name

\* R.prop(name, obj)
prop(name, obj) ==
  IF hasName(obj, name)
    THEN obj[CHOOSE i \in 1..Len(obj) : obj[i].name = name].value
    ELSE Undef

\* R.assoc(name, value, obj): a name already there keeps its place
assoc(name, value, obj) ==
  IF hasName(obj, name)
    THEN [i \in 1..Len(obj) |->
            IF obj[i].name = name THEN [name |-> name, value |-> value] ELSE obj[i]]
    ELSE Append(obj, [name |-> name, value |-> value])

\* R.fromPairs: of two pairs with one name the later gives the value
RECURSIVE fromPairs(_)
fromPairs(pairs) ==
  IF pairs = <<>> THEN <<>>
  ELSE LET front == SubSeq(pairs, 1, Len(pairs) - 1)
           last == pairs[Len(pairs)]
       IN assoc(last.name, last.value, fromPairs(front))

\* R.omit(names, obj)
omit(names, obj) == SelectSeq(obj, LAMBDA pair : pair.name \notin names)

\* R.pickBy(isNotMissing, obj)
pickByIsNotMissing(obj) == SelectSeq(obj, LAMBDA pair : isNotMissing(pair.value))

\* new Date(ms).toISOString(), abbreviated to the year, "T", one digit that
\* stands for the time of day, and "Z"
toISOString(ms) == <<"2", "0", "2", "6", "T", CHOOSE d \in Digits : d = ToString(ms), "Z">>

\* does /now/i match str at i?
matchesNow(str, i) ==
  i + 2 <= Len(str) /\ toLowerCase(SubSeq(str, i, i + 2)) = <<"n", "o", "w">>

\* mutant: /now/g, the match depends on the letter case
RECURSIVE replaceNowCaseSensitive(_, _, _)
replaceNowCaseSensitive(str, i, replacement) ==
  IF i > Len(str) THEN <<>>
  ELSE IF i + 2 <= Len(str) /\ SubSeq(str, i, i + 2) = <<"n", "o", "w">>
    THEN replacement \o replaceNowCaseSensitive(str, i + 3, replacement)
    ELSE <<str[i]>> \o replaceNowCaseSensitive(str, i + 1, replacement)

\* str.replace(/now/gi, replacement), from position i on
RECURSIVE replaceNow(_, _, _)
replaceNow(str, i, replacement) ==
  IF i > Len(str) THEN <<>>
  ELSE IF matchesNow(str, i)
    THEN replacement \o replaceNow(str, i + 3, replacement)
    ELSE <<str[i]>> \o replaceNow(str, i + 1, replacement)

PageNumName == <<"p", "a", "g", "e", "N", "u", "m">>
ScrollName == <<"s", "c", "r", "o", "l", "l">>
TemporalName == <<"t", "e", "m", "p", "o", "r", "a", "l">>

\* toCanonicalQueryParams(queryParams) with Date.now() = now
toCanonicalQueryParams(queryParams, now) ==
  LET named == fromPairs([i \in 1..Len(queryParams) |->
                   [name |-> camelCase(queryParams[i].name),
                    value |-> queryParams[i].value]])
      unpaged == IF truthy(prop(ScrollName, named))
                   THEN omit({PageNumName}, named) ELSE named
      timed == IF truthy(prop(TemporalName, unpaged))
                 THEN assoc(TemporalName,
                            replaceNow(prop(TemporalName, unpaged), 1, toISOString(now)),
                            unpaged)
                 ELSE unpaged
  IN pickByIsNotMissing(timed)

\* toCanonicalHeaders(headers)
toCanonicalHeaders(headers) ==
  pickByIsNotMissing(fromPairs([i \in 1..Len(headers) |->
     [name |-> toLowerCase(headers[i].name), value |-> headers[i].value]]))

----------------------------------------------------------------------------
(* discoverGranules: duplicate handling (discoverGranulesCmr.js) *)

Undefined == "undefined"   \* a property that is not set
Null == "null"             \* a property set to null
Policies == {"skip", "error", "replace", "version"}
ConfigValues == {Undefined, Null} \cup Policies

\* a value that || passes over
falsy(v) == v \in {Undefined, Null}

\* a destructuring default `x = d`: d is used only when x is undefined
defaultTo(x, d) == IF x = Undefined THEN d ELSE x

\* a || b
orElse(a, b) == IF falsy(a) THEN b ELSE a

\* discoveryDuplicateHandling = collection.duplicateHandling (destructuring default)
discoveryDuplicateHandling(ov, cdh) == defaultTo(ov, cdh)

\* ingestCollectionFull.duplicateHandling || "skip"
syncDuplicateHandling(idh) == orElse(idh, "skip")

\* the argument of makeIsNotDuplicateFn:
\* discoveryDuplicateHandling || syncDuplicateHandling
duplicateHandling(ov, cdh, idh) ==
  orElse(discoveryDuplicateHandling(ov, cdh), syncDuplicateHandling(idh))

\* mutant: granules without files pass the first filter
hasFilesAlways(granule) == TRUE

\* R.hasPath(["files", 0])
hasFiles(granule) == granule.files > 0

\* mutant: the predicate is consulted under every policy but "version"
makeIsNotDuplicateFnAlsoReplace(dh) == dh \in {"skip", "error", "replace"}

\* mutant: the predicate is not consulted under "skip"
makeIsNotDuplicateFnOnlyError(dh) == dh \in {"error"}

\* mutant: the predicate is not consulted under "error"
makeIsNotDuplicateFnOnlySkip(dh) == dh \in {"skip"}

\* makeIsNotDuplicateFn: is checkGranuleHasNoDuplicate consulted (else R.T)?
makeIsNotDuplicateFn(dh) == dh \in {"skip", "error"}

\* checkGranuleHasNoDuplicate(granuleId, duplicateHandling) of
\* @cumulus/discover-granules: truthy for a granule without record, false for
\* a recorded one under "skip", an error under "error"
checkGranuleHasNoDuplicate(granule, dh) ==
  IF ~granule.recorded THEN "pass"
  ELSE IF dh = "error" THEN "throw" ELSE "drop"

\* granules the search may produce (the i-th has granule id i): without file
\* or with one, with a record in the granules table or without
\* mutant: asyncBuffer reads ahead without limit
asyncBufferReadsAlways(buffered) == TRUE

\* I.asyncBuffer(16): does the buffer ask the filters for one more granule
\* while it holds buffered results the consumer has not taken?
asyncBufferReads(buffered) == buffered < BufferSize

\* searches long enough to fill the buffer: granules with a file and no record
LongCandidateLists ==
  {[i \in 1..n |-> [files |-> 1, recorded |-> FALSE]] :
     n \in BufferSize..(BufferSize + MaxCandidates)}

CandidateKinds == [files : {0, 1}, recorded : BOOLEAN]
CandidateLists ==
  UNION { [1..n -> CandidateKinds] : n \in 0..MaxCandidates }

----------------------------------------------------------------------------
InitSearch ==
  /\ spc = "fetching"
  /\ \E size \in 1..MaxPageSize, scroll \in BOOLEAN :
       options = [scrollId |-> NoToken, pageNum |-> 0, pageSize |-> size, scroll |-> scroll]
  /\ srvTotal \in 0..MaxHits

NoSearch ==
  /\ spc = "idle"
  /\ options = [scrollId |-> NoToken, pageNum |-> 0, pageSize |-> 1, scroll |-> FALSE]
  /\ srvTotal = 0

InitPublish ==
  /\ hpc = "start"
  /\ granuleUR \in GranuleURs
  /\ dataType \in DataTypes
  /\ dryRun \in BOOLEAN

NoPublish ==
  /\ hpc = "idle"
  /\ granuleUR = <<>>
  /\ dataType = <<>>
  /\ dryRun = TRUE

\* discoverGranules has not been called yet: its parameters
InitDiscover ==
  /\ dpc = "called"
  /\ override \in ConfigValues
  /\ collectionDH \in ConfigValues
  /\ ingestDH \in ConfigValues
  /\ \/ candidates \in CandidateLists
     \/ /\ candidates \in LongCandidateLists
        /\ override = "skip" /\ collectionDH = Undefined /\ ingestDH = Undefined

NoDiscover ==
  /\ dpc = "idle"
  /\ override = Undefined
  /\ collectionDH = Undefined
  /\ ingestDH = Undefined
  /\ candidates = <<>>

\* arguments of the functions applied on their own
\* strings of at most n characters drawn from chars
Strings(chars, n) == UNION {[1..k -> chars] : k \in 0..n}

Pair(name, value) == [name |-> name, value |-> value]

\* The objects given to toCanonicalQueryParams, of one parameter or of two with
\* different names.  Names hold lower and upper case, a separator, a bracket
\* and a digit; the special parameters are scroll, pageNum, page_num, temporal
\* and those with a missing value; a temporal value is any string over n, o, w
\* and /, or a mixed-case example.
QueryParams ==
  LET Named(n) == {Pair(name, <<"v">>) : name \in Strings({"a", "B", "_", "[", "1"}, n) \ {<<>>}}
      Special ==
        {Pair(ScrollName, v) : v \in {True, False, EmptyString, EmptyList}}
          \cup {Pair(name, One) : name \in {PageNumName, <<"p", "a", "g", "e", "_", "n", "u", "m">>}}
          \cup {Pair(<<"x">>, v) : v \in {Nil, Undef, EmptyString, EmptyList}}
          \cup {Pair(TemporalName, v) : v \in {<<"n", "o", "w">>, EmptyString, Nil}}
      Temporals ==
        Strings({"n", "o", "w", "/"}, MaxTemporalLen)
          \cup { <<"P", "5", "6", "D", "/", "n", "o", "w">>,
                 <<"N", "O", "W", "/", "n", "o", "w">>,
                 <<"N", "o", "w", "/", "n", "O", "W">>,
                 <<"n", "o", "n", "O", "w", "w">> }
      Paired == Named(MaxNameLen - 1) \cup Special
  IN {<<>>}
       \cup {<<p>> : p \in Named(MaxNameLen) \cup Special}
       \cup {<<Pair(TemporalName, v)>> : v \in Temporals}
       \cup {<<pq[1], pq[2]>> : pq \in {pq \in Paired \X Paired : pq[1].name # pq[2].name}}

\* Date.now() at the call
Clocks == {0, 7}

\* the objects given to toCanonicalHeaders
Headers ==
  LET Header == {Pair(name, v) : name \in Strings({"a", "A", "-"}, MaxNameLen - 1) \ {<<>>},
                                 v \in {<<"v">>, Nil, EmptyString}}
  IN {<<>>} \cup {<<p>> : p \in Header}
       \cup {<<pq[1], pq[2]>> : pq \in {pq \in Header \X Header : pq[1].name # pq[2].name}}

----------------------------------------------------------------------------
(* makeToUMMFn / makeToGranuleFn: file sizes (discoverGranulesCmr.js) *)

\* A Size is held as a whole number of 10^-9 units (0.501126289 is 501126289)
\* and a product as [q, r], which stands for q + r / SizeScale.  0 in Size or
\* SizeInBytes stands for a falsy value (0 or undefined).
SizeScale == 1000000000

\* unitFactor[unit] || 1, as a power of 1024
unitExponent(unit) ==
  CASE unit = "KB" -> 1
    [] unit = "MB" -> 2
    [] unit = "GB" -> 3
    [] unit = "TB" -> 4
    [] unit = "PB" -> 5
    [] OTHER -> 0

\* x doubled n times
RECURSIVE Doubled(_, _)
Doubled(x, n) ==
  IF n = 0 THEN x
  ELSE Doubled([q |-> 2 * x.q + (2 * x.r) \div SizeScale, r |-> (2 * x.r) % SizeScale], n - 1)

\* size * (unitFactor[unit] || 1); 1024 is ten doublings
timesUnitFactor(size, unit) ==
  LET TenTimes(k) == k + k + k + k + k + k + k + k + k + k
  IN Doubled([q |-> size \div SizeScale, r |-> size % SizeScale], TenTimes(unitExponent(unit)))

\* Math.round: halves go up
mathRound(x) == x.q + (IF 2 * x.r >= SizeScale THEN 1 ELSE 0)

\* R.startsWith('GET DATA') of the link types of the model
startsWithGetData(type) == type \in {"GET DATA", "GET DATA VIA DIRECT ACCESS"}

\* sizeInBytes(umm, relatedUrl): {} stands for undefined
sizeInBytes(distributions, relatedUrl) ==
  LET distros == SelectSeq(distributions, LAMBDA d : d.Size # 0 \/ d.SizeInBytes # 0)
      named == {i \in 1..Len(distros) : distros[i].Name = relatedUrl.name}
      distro == IF named # {}
                  THEN distros[CHOOSE i \in named : \A j \in named : i <= j]
                  ELSE IF relatedUrl.Type = "GET DATA" /\ Len(distros) = 1
                    THEN distros[1]
                    ELSE [Name |-> "", Size |-> 0, SizeUnit |-> "", SizeInBytes |-> 0]
  IN IF distro.SizeInBytes # 0 THEN {distro.SizeInBytes}
     ELSE IF distro.Size # 0 THEN {mathRound(timesUnitFactor(distro.Size, distro.SizeUnit))}
     ELSE {}

\* umm.RelatedUrls: every link with its SizeInBytes
RelatedUrls(umm) ==
  [i \in 1..Len(umm.RelatedUrls) |->
     [name |-> umm.RelatedUrls[i].name, Type |-> umm.RelatedUrls[i].Type,
      SizeInBytes |-> sizeInBytes(umm.ArchiveAndDistributionInformation, umm.RelatedUrls[i])]]

\* toGranule(umm).files: a file of every link whose Type starts with GET DATA
toGranuleFiles(umm) ==
  LET downloadUrls == SelectSeq(RelatedUrls(umm), LAMBDA u : startsWithGetData(u.Type))
  IN [i \in 1..Len(downloadUrls) |->
        [type |-> IF downloadUrls[i].Type = "GET DATA" THEN "data" ELSE Undefined,
         name |-> downloadUrls[i].name,
         filename |-> downloadUrls[i].name]]

\* The records given to toUMM and toGranule.  Size and SizeUnit as records
\* declare them: the Size of the repository's test, halves, sizes just under
\* and over half a KB, and no known unit; under TB and PB only sizes of a few
\* 10^-9.  Two entries of one record are drawn from fewer declarations.
UMMs ==
  LET FileNames == {"f", "g"}
      Declarations ==
        [Size : {501126289, 500000000, 1000000000, 1500000000, 488281, 488282},
         SizeUnit : {"KB", "MB", "GB", "B"}]
          \cup [Size : {1, 2, 15}, SizeUnit : {"KB", "TB", "PB"}]
      Distributions ==
        {[Name |-> n, Size |-> d.Size, SizeUnit |-> d.SizeUnit, SizeInBytes |-> 0] :
           n \in FileNames, d \in Declarations}
          \cup [Name : FileNames, Size : {0}, SizeUnit : {"MB"}, SizeInBytes : {0, 7}]
      Paired == {d \in Distributions :
                   d.Size \in {0, 501126289, 15} /\ d.SizeUnit \in {"MB", "PB"}}
      Links == [name : FileNames,
                Type : {"GET DATA", "GET DATA VIA DIRECT ACCESS", "USE SERVICE API"}]
  IN [ArchiveAndDistributionInformation :
        {<<>>} \cup {<<d>> : d \in Distributions}
          \cup {<<de[1], de[2]>> : de \in Paired \X Paired},
      RelatedUrls :
        {<<u>> : u \in Links} \cup {<<uv[1], uv[2]>> : uv \in Links \X Links}]

\* findConcepts: the options of the first request, made of the caller's
\* queryParams: params = toCanonicalQueryParams({ scroll: true, ...queryParams })
\* and options.params = { pageSize: 2000, ...params }
firstOptions(queryParams, now) ==
  LET params == toCanonicalQueryParams(<<Pair(ScrollName, True)>> \o queryParams, now)
  IN [scrollId |-> NoToken,
      pageNum |-> IF hasName(params, PageNumName) THEN 1 ELSE 0,
      pageSize |-> 2000,
      scroll |-> truthy(prop(ScrollName, params))]

\* the queryParams of a caller that names the page or the scrolling
PagingQueries ==
  {q \in QueryParams :
     \A i \in 1..Len(q) :
       q[i].name \in {ScrollName, PageNumName, <<"p", "a", "g", "e", "_", "n", "u", "m">>}}

----------------------------------------------------------------------------
(* dispatchDiscoverGranules *)

\* The events given to dispatchDiscoverGranules: config.meta.dryRun; the
\* discovery filter, where the configured one keeps the granules whose id is in
\* keeps and without config.meta.discoverGranulesFilter the default filter is
\* used; what the handler does, and its result with or without granules.
DispatchEvents ==
  [dryRun : {True, False, Undef, One, EmptyString},
   filter : {[configured |-> FALSE, keeps |-> {}]}
              \cup {[configured |-> TRUE, keeps |-> S] : S \in SUBSET (1..MaxGranules)},
   result : {[hasGranules |-> TRUE, granules |-> [i \in 1..n |-> i]] : n \in 0..MaxGranules}
              \cup {[hasGranules |-> FALSE, granules |-> <<>>]},
   handler : {"resolves", "rejects"}]

\* the default filter ({ granules = [] }) => granules
defaultFilter(result) == IF result.hasGranules THEN result.granules ELSE <<>>

\* filter(result, event)
applyFilter(filter, result) ==
  IF filter.configured
    THEN SelectSeq(defaultFilter(result), LAMBDA id : id \in filter.keeps)
    ELSE defaultFilter(result)

\* mutant: the granules are returned in a dry run as well
returnedGranulesAlways(dryRunValue, collected) == collected

\* granules: dryRun ? [] : granules
returnedGranules(dryRunValue, collected) == IF truthy(dryRunValue) THEN <<>> ELSE collected

\* what the filter of this run returns
Selected == applyFilter(input.filter, input.result)

----------------------------------------------------------------------------
(* makeContinuous *)

\* a response of the lister: results of n items, or one checkResponse rejects
\* (an error reported, or no results)
EmptyPage == [ok |-> TRUE, n |-> 0]
PageLists ==
  LET Responses == [ok : {TRUE}, n : 0..MaxPageSize] \cup {[ok |-> FALSE, n |-> 0]}
  IN UNION {[1..k -> Responses] : k \in 0..MaxPages}

\* lister({ prefix, query: { ...query, page } }): past its last page a lister
\* has no results
lister(pages, p) == IF p <= Len(pages) THEN pages[p] ELSE EmptyPage

\* the results of page p: item i of page p is <<p, i>>
resultsOfPage(pages, p) == [i \in 1..lister(pages, p).n |-> <<p, i>>]

\* mutant: the page after next is asked for
getPageSkipsAPage(pages, p) ==
  LET items == resultsOfPage(pages, p)
  IN [more |-> Len(items) > 0, items |-> items, next |-> p + 2]

\* getPage(page): items.length > 0 && [items, page + 1]
getPage(pages, p) ==
  LET items == resultsOfPage(pages, p)
  IN [more |-> Len(items) > 0, items |-> items, next |-> p + 1]

\* the page the generator asks for next: 1 at first, then what getPage
\* returned with the latest page
Seed ==
  IF pagesRequested = <<>> THEN 1
  ELSE getPage(input.pages, pagesRequested[Len(pagesRequested)]).next

Inputs(o) ==
  CASE o = "delay" -> [attempt : 1..MaxAttempt, jitter : JitterMillis]
    [] o = "queryParams" -> [queryParams : QueryParams, now : Clocks]
    [] o = "headers" -> [headers : Headers]
    [] o = "toGranule" -> [umm : UMMs]
    [] o = "continuous" -> [pages : PageLists]
    [] o = "laterPage" ->
         {i \in
         [options : {[scrollId |-> t, pageNum |-> IF t = NoToken THEN 2 ELSE 0,
                      pageSize |-> MaxPageSize, scroll |-> t # NoToken]
                       : t \in Tokens \cup {NoToken}},
          hits : 1..MaxHits, count : 1..MaxHits,
          response : [status : {200, 404}, data : {<<>>, <<1>>},
                      hits : 0..MaxHits, scrollId : {NoToken}]]
            : i.count <= i.hits}
    [] o = "requests" -> [queryParams : PagingQueries, now : {0}, token : Tokens \cup {NoToken}]
    [] o = "dispatch" -> DispatchEvents
    [] OTHER -> {<<>>}

Init ==
  /\ op \in {"search", "publish", "discover", "delay", "queryParams", "headers",
             "toGranule", "dispatch", "continuous",
             "requests", "laterPage"}
  /\ input \in Inputs(op)
  /\ output = {}
  /\ IF op = "search" THEN InitSearch ELSE NoSearch
  /\ IF op = "publish" THEN InitPublish ELSE NoPublish
  /\ IF op = "discover" THEN InitDiscover ELSE NoDiscover
  /\ gpc = IF op = "dispatch" THEN "called" ELSE "idle"
  /\ handlerCalls = 0
  /\ filterCalls = 0
  /\ pulled = 0
  /\ pending = <<>>
  /\ granules = <<>>
  /\ cpc = IF op = "continuous" THEN "running" ELSE "idle"
  /\ pagesRequested = <<>>
  /\ pageItems = <<>>
  /\ things = <<>>
  /\ listError = {}
  /\ policy = Undefined
  /\ cursor = 1
  /\ consulted = <<>>
  /\ buffer = <<>>
  /\ delivered = <<>>
  /\ discError = {}
  /\ publishCalls = <<>>
  /\ callResults = <<>>
  /\ handlerError = {}
  /\ ppc = "idle"
  /\ putAttempt = 0
  /\ delAttempt = 0
  /\ nPut = 0
  /\ nDelete = 0
  /\ putSeen = {}
  /\ delSeen = {}
  /\ lastPut = {}
  /\ lastDel = {}
  /\ httpLog = <<>>
  /\ hits = 0
  /\ count = 0
  /\ page = <<>>
  /\ yielded = <<>>
  /\ attempt = 0
  /\ seen = {}
  /\ gets = 0
  /\ pageReqs = <<>>
  /\ pageResps = <<>>
  /\ clearScrolls = <<>>
  /\ clearOutcomes = <<>>
  /\ searchError = {}
  /\ decodeError = {}
  /\ srvCursor = 0

\* the request log: a retry re-sends the same request and adds no entry
LogRequest == IF attempt = 0 THEN Append(pageReqs, options) ELSE pageReqs

CanSend == attempt > 0 \/ Len(pageReqs) < MaxPageReqs

\* client.get resolves: pagedSearch returns [results, params] and the generator
\* yields the first result, or fetches again at once when the page is empty
\* (an ignored 404), or pagedSearch ends the search and calls clearScroll
PageArrives ==
  /\ op = "search" /\ spc = "fetching" /\ CanSend
  /\ \E response \in ServerPages(options) :
       LET r == pagedSearch(options, hits, count, response) IN
         /\ validateStatus(response.status)
         /\ pageReqs' = LogRequest
         /\ pageResps' = Append(pageResps,
                [status |-> response.status, n |-> Len(resultsOf(response)),
                 scrollId |-> response.scrollId, count |-> count, hits |-> r.hits])
         /\ srvCursor' = IF options.scroll THEN srvCursor + Len(response.data) ELSE srvCursor
         /\ attempt' = 0 /\ seen' = {} /\ gets' = 0
         /\ clearScrolls' = clearScroll(clearScrolls, r.clear)
         /\ IF r.more
              THEN /\ options' = r.options /\ hits' = r.hits /\ count' = r.count
                   /\ IF Len(r.results) > 0
                        THEN /\ yielded' = Append(yielded, Head(r.results))
                             /\ page' = Tail(r.results)
                             /\ spc' = "suspended"
                        ELSE /\ UNCHANGED <<yielded, page>>
                             /\ spc' = "fetching"
              ELSE /\ spc' = "closed"
                   /\ UNCHANGED <<options, hits, count, yielded, page>>
  /\ UNCHANGED <<op, searchError, decodeError, srvTotal, clearOutcomes,
                 pubVars, restVars>>

\* client.get fails and retry-axios sends the request again
PageRetried ==
  /\ op = "search" /\ spc = "fetching" /\ CanSend
  /\ \E status \in SearchFailures :
       /\ shouldRetryRequest("GET", status, attempt)
       /\ seen' = seen \cup {status}
  /\ pageReqs' = LogRequest
  /\ attempt' = attempt + 1
  /\ gets' = gets + 1
  /\ UNCHANGED <<op, spc, options, hits, count, page, yielded, pageResps,
                 clearScrolls, searchError, decodeError, srvTotal, srvCursor, clearOutcomes,
                 pubVars, restVars>>

\* client.get fails for good: the catch block of pagedSearch calls clearScroll
\* with the scroll id of the options and throws
PageFails ==
  /\ op = "search" /\ spc = "fetching" /\ CanSend
  /\ \E status \in SearchFailures :
       /\ ~shouldRetryRequest("GET", status, attempt)
       /\ seen' = seen \cup {status}
       /\ searchError' = {status}
  /\ pageReqs' = LogRequest
  /\ gets' = gets + 1
  /\ clearScrolls' = clearScroll(clearScrolls, getScrollId(options))
  /\ spc' = "failed"
  /\ UNCHANGED <<op, options, hits, count, page, yielded, attempt, pageResps,
                 srvTotal, srvCursor, clearOutcomes, decodeError,
                 pubVars, restVars>>

\* client.get is answered with a body that options.transformResponse cannot
\* parse: the transform throws inside axios, whatever the status; retry-axios
\* decides on the thrown error, and unless it retries, the catch block of
\* pagedSearch calls clearScroll and throws the enhanced error
PageUndecodable ==
  /\ op = "search" /\ spc = "fetching" /\ CanSend
  /\ \E body \in Bodies, status \in {200, 404, 500} :
       /\ ~parses(body)
       /\ decodeError' =
            {[body |-> body, status |-> status, gets |-> gets + 1,
              reqs |-> Len(LogRequest),
              message |-> enhancedMessage(transformUMMJSONResponseMessage(body), "")]}
       /\ IF shouldRetryRequest(thrownMethod(body), NoResponse, attempt)
            THEN /\ attempt' = attempt + 1
                 /\ UNCHANGED <<spc, clearScrolls>>
            ELSE /\ spc' = "failed"
                 /\ clearScrolls' = clearScroll(clearScrolls, getScrollId(options))
                 /\ UNCHANGED attempt
  /\ pageReqs' = LogRequest
  /\ gets' = gets + 1
  /\ UNCHANGED <<op, options, hits, count, page, yielded, seen, pageResps,
                 searchError, srvTotal, srvCursor, clearOutcomes,
                 pubVars, restVars>>

\* the server has no more data for the scroll session: every answer it gives
\* from now on is an empty page or a 404 (see ServerPages)
Drained == options.scroll /\ srvCursor = srvTotal

\* pagedSearch calls client.get while the server has no more data; the request
\* is in flight (the request log is not kept in this phase)
DrainSend ==
  /\ op = "search" /\ spc = "fetching" /\ Drained
  /\ spc' = "awaiting"
  /\ UNCHANGED <<op, options, hits, count, page, yielded, attempt, seen, gets,
                 pageReqs, pageResps, clearScrolls, searchError, decodeError, srvTotal,
                 srvCursor, clearOutcomes, pubVars, restVars>>

\* the request in flight is answered (empty page or 404): pagedSearch returns
\* [[], params] and is called again, or ends the search and calls clearScroll
DrainAnswer ==
  /\ op = "search" /\ spc = "awaiting"
  /\ \E response \in ServerPages(options) :
       LET r == pagedSearch(options, hits, count, response) IN
         /\ clearScrolls' = clearScroll(clearScrolls, r.clear)
         /\ IF r.more
              THEN /\ options' = r.options /\ hits' = r.hits /\ count' = r.count
                   /\ spc' = "fetching"
              ELSE /\ spc' = "closed"
                   /\ UNCHANGED <<options, hits, count>>
  /\ UNCHANGED <<op, page, yielded, attempt, seen, gets, pageReqs, pageResps,
                 searchError, decodeError, srvTotal, srvCursor, clearOutcomes,
                 pubVars, restVars>>

\* the consumer asks for the next record
ConsumerNext ==
  /\ op = "search" /\ spc = "suspended"
  /\ IF Len(page) > 0
       THEN /\ yielded' = Append(yielded, Head(page))
            /\ page' = Tail(page)
            /\ spc' = "suspended"
       ELSE /\ spc' = "fetching"
            /\ UNCHANGED <<yielded, page>>
  /\ UNCHANGED <<op, options, hits, count, attempt, seen, gets, pageReqs, pageResps,
                 clearScrolls, searchError, decodeError, srvTotal, srvCursor, clearOutcomes,
                 pubVars, restVars>>

\* the consumer stops early (break, return): the generator is finished where it
\* is suspended; findConcepts has no finally block
ConsumerStops ==
  /\ op = "search" /\ spc = "suspended"
  /\ spc' = "stopped"
  /\ UNCHANGED <<op, options, hits, count, page, yielded, attempt, seen, gets,
                 pageReqs, pageResps, clearScrolls, searchError, decodeError, srvTotal, srvCursor,
                 clearOutcomes,
                 pubVars, restVars>>

\* a POST /search/clear-scroll is answered: clearScroll returns, or logs the
\* failure; nothing awaits clearScroll, so the search is where it was
ClearScrollSettles ==
  /\ op = "search" /\ Len(clearOutcomes) < Len(clearScrolls)
  /\ \E status \in ClearStatuses :
       clearOutcomes' = Append(clearOutcomes,
           [scrollId |-> clearScrolls[Len(clearOutcomes) + 1], status |-> status,
            failed |-> ~validateStatus(status), thrown |-> clearScrollThrows(status)])
  /\ UNCHANGED <<op, spc, options, hits, count, page, yielded, attempt, seen, gets,
                 pageReqs, pageResps, clearScrolls, searchError, decodeError, srvTotal, srvCursor,
                 pubVars, restVars>>

----------------------------------------------------------------------------
(* Publish actions *)

\* CMR.publishGranule(ur, xml) is called: a new client, a new PUT
CallPublish(ur) ==
  /\ publishCalls' = Append(publishCalls, ur)
  /\ ppc' = "put"
  /\ putAttempt' = 0 /\ delAttempt' = 0 /\ nPut' = 0 /\ nDelete' = 0
  /\ putSeen' = {} /\ delSeen' = {} /\ lastPut' = {} /\ lastDel' = {} /\ httpLog' = <<>>

\* CMR.publishGranule has resolved: the handler marks the granule published
PublishResolves(status) ==
  /\ ppc' = "published"
  /\ callResults' = Append(callResults, [ok |-> TRUE, status |-> status, via |-> "PUT"])
  /\ hpc' = "done"
  /\ UNCHANGED <<publishCalls, handlerError>>

\* CMR.publishGranule has rejected with the error of a PUT or of the DELETE:
\* the catch block of the handler publishes again with the prefix stripped
\* (first call only), or rethrows
PublishRejects(status, via) ==
  /\ callResults' = Append(callResults, [ok |-> FALSE, status |-> status, via |-> via])
  /\ IF hpc = "publishing" /\ stripsPrefix(status, granuleUR, dataType)
       THEN /\ hpc' = "republishing"
            /\ CallPublish(strippedUR(granuleUR, dataType))
            /\ UNCHANGED handlerError
       ELSE /\ hpc' = "failed"
            /\ handlerError' = {status}
            /\ ppc' = "failed"
            /\ UNCHANGED publishCalls

CurrentUR == Last(publishCalls)

LogHttp(method) ==
  IF httpLog # <<>> /\ Last(httpLog).method = method
    THEN httpLog
    ELSE Append(httpLog, [method |-> method, ur |-> CurrentUR])

\* the handler starts: not a dry run, so it calls CMR.publishGranule
StartPublish ==
  /\ op = "publish" /\ hpc = "start" /\ ~dryRun
  /\ hpc' = "publishing"
  /\ CallPublish(granuleUR)
  /\ UNCHANGED <<op, restVars, searchVars, granuleUR, dataType, dryRun, callResults, handlerError>>

\* the handler starts a dry run: CMR.validateGranule POSTs once (retry-axios
\* does not retry a POST) and the handler ends with its outcome
Validate ==
  /\ op = "publish" /\ hpc = "start" /\ dryRun
  /\ \E status \in ValidateStatuses :
       /\ isSuccess(status) \/ ~shouldRetryRequest("POST", status, 0)
       /\ hpc' = IF isSuccess(status) THEN "done" ELSE "failed"
       /\ handlerError' = IF isSuccess(status) THEN {} ELSE {status}
  /\ UNCHANGED <<op, restVars, searchVars, granuleUR, dataType, dryRun, publishCalls, callResults,
                 ppc, putAttempt, delAttempt, nPut, nDelete, putSeen, delSeen, lastPut,
                 lastDel, httpLog>>

\* the PUT is sent and answered 2xx
PutSucceeds ==
  /\ op = "publish" /\ ppc = "put" /\ nPut < MaxPuts
  /\ nPut' = nPut + 1
  /\ httpLog' = LogHttp("PUT")
  /\ lastPut' = {PutCreated}
  /\ PublishResolves(PutCreated.status)
  /\ UNCHANGED <<op, restVars, searchVars, granuleUR, dataType, dryRun, putAttempt, delAttempt,
                 nDelete, putSeen, delSeen, lastDel>>

\* the PUT is sent and fails, and retry-axios retries it: after the delay the
\* onRetryAttempt hook unpublishes first when the failure is a parent change
PutRetried ==
  /\ op = "publish" /\ ppc = "put" /\ nPut < MaxPuts
  /\ \E answer \in PutFailures :
       /\ shouldRetry(answer, putAttempt)
       /\ lastPut' = {answer}
       /\ putSeen' = putSeen \cup {answer.status}
       /\ IF onRetryAttempt(answer)
            THEN ppc' = "delete" /\ delAttempt' = 0 /\ delSeen' = {}
            ELSE ppc' = "put" /\ UNCHANGED <<delAttempt, delSeen>>
  /\ nPut' = nPut + 1
  /\ httpLog' = LogHttp("PUT")
  /\ putAttempt' = putAttempt + 1
  /\ UNCHANGED <<op, restVars, searchVars, hpc, granuleUR, dataType, dryRun, publishCalls,
                 callResults, handlerError, nDelete, lastDel>>

\* the PUT is sent and fails for good: publishGranule rejects with its error
PutFails ==
  /\ op = "publish" /\ ppc = "put" /\ nPut < MaxPuts
  /\ \E answer \in PutFailures :
       /\ ~shouldRetry(answer, putAttempt)
       /\ PublishRejects(answer.status, "PUT")
       /\ IF ppc' = "failed"
            THEN /\ lastPut' = {answer}
                 /\ putSeen' = putSeen \cup {answer.status}
                 /\ nPut' = nPut + 1
                 /\ httpLog' = LogHttp("PUT")
                 /\ UNCHANGED <<putAttempt, delAttempt, nDelete, delSeen, lastDel>>
            ELSE TRUE
  /\ UNCHANGED <<op, restVars, searchVars, granuleUR, dataType, dryRun>>

\* the DELETE of unpublishGranule is sent and answered 2xx: the PUT is retried
DeleteSucceeds ==
  /\ op = "publish" /\ ppc = "delete"
  /\ \E status \in DeleteStatuses :
       /\ isSuccess(status)
       /\ lastDel' = {status}
  /\ afterUnpublish(FALSE) = "resend"
  /\ nDelete' = nDelete + 1
  /\ httpLog' = LogHttp("DELETE")
  /\ ppc' = "put"
  /\ delSeen' = {}
  /\ UNCHANGED <<op, restVars, searchVars, hpc, granuleUR, dataType, dryRun, publishCalls,
                 callResults, handlerError, putAttempt, delAttempt, nPut, putSeen, lastPut>>

\* the DELETE is sent and fails, and retry-axios retries it
DeleteRetried ==
  /\ op = "publish" /\ ppc = "delete"
  /\ \E status \in DeleteStatuses :
       /\ ~isSuccess(status) /\ shouldRetryRequest("DELETE", status, delAttempt)
       /\ lastDel' = {status}
       /\ delSeen' = delSeen \cup {status}
  /\ nDelete' = nDelete + 1
  /\ httpLog' = LogHttp("DELETE")
  /\ delAttempt' = delAttempt + 1
  /\ UNCHANGED <<op, restVars, searchVars, hpc, granuleUR, dataType, dryRun, publishCalls,
                 callResults, handlerError, ppc, putAttempt, nPut, putSeen, lastPut>>

\* the DELETE is sent and fails for good: unpublishGranule rejects, and with it
\* the retry of the PUT and publishGranule
DeleteFails ==
  /\ op = "publish" /\ ppc = "delete"
  /\ \E status \in DeleteStatuses :
       /\ ~isSuccess(status) /\ ~shouldRetryRequest("DELETE", status, delAttempt)
       /\ IF afterUnpublish(TRUE) = "reject"
            THEN /\ PublishRejects(status, "DELETE")
                 /\ IF ppc' = "failed"
                      THEN /\ lastDel' = {status}
                           /\ delSeen' = delSeen \cup {status}
                           /\ nDelete' = nDelete + 1
                           /\ httpLog' = LogHttp("DELETE")
                           /\ UNCHANGED <<putAttempt, delAttempt, nPut, putSeen, lastPut>>
                      ELSE TRUE
            ELSE /\ lastDel' = {status}
                 /\ delSeen' = delSeen \cup {status}
                 /\ nDelete' = nDelete + 1
                 /\ httpLog' = LogHttp("DELETE")
                 /\ ppc' = "put"
                 /\ UNCHANGED <<hpc, publishCalls, callResults, handlerError, putAttempt,
                                delAttempt, nPut, putSeen, lastPut>>
  /\ UNCHANGED <<op, restVars, searchVars, granuleUR, dataType, dryRun>>

----------------------------------------------------------------------------
(* Discovery actions *)

\* discoverGranules is called: the duplicate policy is resolved and the
\* pipeline is built
DiscoverGranules ==
  /\ op = "discover" /\ dpc = "called"
  /\ policy' = duplicateHandling(override, collectionDH, ingestDH)
  /\ dpc' = "running"
  /\ UNCHANGED <<op, searchVars, pubVars, procVars, input, output, override, collectionDH, ingestDH, candidates,
                 cursor, consulted, buffer, delivered, discError>>

\* asyncBuffer reads ahead: the next granule of the search goes through the
\* two filters and its outcome (the granule, nothing, or the error thrown by
\* the duplicate check) is queued for the consumer
PipeNext ==
  /\ op = "discover" /\ dpc = "running"
  /\ cursor <= Len(candidates) /\ asyncBufferReads(Len(buffer))
  /\ LET granule == candidates[cursor]
         asks == hasFiles(granule) /\ makeIsNotDuplicateFn(policy)
         answer == IF ~hasFiles(granule) THEN "drop"
                   ELSE IF asks THEN checkGranuleHasNoDuplicate(granule, policy)
                   ELSE "pass"
     IN /\ consulted' = IF asks THEN Append(consulted, cursor) ELSE consulted
        /\ buffer' = CASE answer = "pass" -> Append(buffer, [kind |-> "granule", id |-> cursor])
                        [] answer = "throw" -> Append(buffer, [kind |-> "error", id |-> cursor])
                        [] OTHER -> buffer
        /\ dpc' = IF answer = "throw" THEN "threw" ELSE "running"
  /\ cursor' = cursor + 1
  /\ UNCHANGED <<op, searchVars, pubVars, procVars, input, output, override, collectionDH, ingestDH, policy,
                 candidates, delivered, discError>>

\* asyncBuffer reads ahead and the search is exhausted: the pipeline ends
PipeEnds ==
  /\ op = "discover" /\ dpc = "running"
  /\ cursor > Len(candidates) /\ asyncBufferReads(Len(buffer))
  /\ dpc' = "drained"
  /\ UNCHANGED <<op, searchVars, pubVars, procVars, input, output, override, collectionDH, ingestDH, policy,
                 candidates, cursor, consulted, buffer, delivered, discError>>

\* the consumer takes the next result: a granule, the error, or the end
TakeGranule ==
  /\ op = "discover" /\ dpc \in {"running", "threw", "drained"}
  /\ IF buffer # <<>>
       THEN /\ buffer' = Tail(buffer)
            /\ IF Head(buffer).kind = "granule"
                 THEN /\ delivered' = Append(delivered, Head(buffer).id)
                      /\ UNCHANGED <<dpc, discError>>
                 ELSE /\ discError' = {Head(buffer).id}
                      /\ dpc' = "failed"
                      /\ UNCHANGED delivered
       ELSE /\ dpc = "drained"
            /\ dpc' = "done"
            /\ UNCHANGED <<buffer, delivered, discError>>
  /\ UNCHANGED <<op, searchVars, pubVars, procVars, input, output, override, collectionDH, ingestDH, policy,
                 candidates, cursor, consulted>>

----------------------------------------------------------------------------
(* Functions applied on their own *)

\* retry-axios calls onDelayedRetryAttempt: the delay before the retry
ExponentiallyDelay ==
  /\ op = "delay" /\ output = {}
  /\ output' = {exponentiallyDelay(input.attempt, input.jitter)}
  /\ UNCHANGED <<op, searchVars, pubVars, discVars, procVars, input>>

\* toCanonicalQueryParams applied to the input, and to its own result at the
\* same Date.now()
ToCanonicalQueryParams ==
  /\ op = "queryParams" /\ output = {}
  /\ LET once == toCanonicalQueryParams(input.queryParams, input.now)
     IN output' = {[once |-> once, twice |-> toCanonicalQueryParams(once, input.now)]}
  /\ UNCHANGED <<op, input, searchVars, pubVars, discVars, procVars>>

\* toCanonicalHeaders applied to the input, and to its own result
ToCanonicalHeaders ==
  /\ op = "headers" /\ output = {}
  /\ LET once == toCanonicalHeaders(input.headers)
     IN output' = {[once |-> once, twice |-> toCanonicalHeaders(once)]}
  /\ UNCHANGED <<op, input, searchVars, pubVars, discVars, procVars>>

\* toUMM and toGranule applied to one record of the search
ToGranule ==
  /\ op = "toGranule" /\ output = {}
  /\ output' = {[RelatedUrls |-> RelatedUrls(input.umm), files |-> toGranuleFiles(input.umm)]}
  /\ UNCHANGED <<op, input, searchVars, pubVars, discVars, procVars>>

\* const result = await handler(event, context); a rejection is logged and
\* thrown again
InvokeHandler ==
  /\ op = "dispatch" /\ gpc = "called"
  /\ handlerCalls' = handlerCalls + 1
  /\ gpc' = IF input.handler = "resolves" THEN "handled" ELSE "failed"
  /\ UNCHANGED <<op, searchVars, pubVars, discVars, input, output, contVars,
                 filterCalls, pulled, pending, granules>>

\* await filter(result, event)
InvokeFilter ==
  /\ op = "dispatch" /\ gpc = "handled"
  /\ filterCalls' = filterCalls + 1
  /\ gpc' = "collecting"
  /\ UNCHANGED <<op, searchVars, pubVars, discVars, input, output, contVars,
                 handlerCalls, pulled, pending, granules>>

\* I.asyncBuffer(16) reads the next granule of the filter's result
BufferPulls ==
  /\ op = "dispatch" /\ gpc = "collecting"
  /\ pulled < Len(Selected) /\ Len(pending) < BufferSize
  /\ pending' = Append(pending, Selected[pulled + 1])
  /\ pulled' = pulled + 1
  /\ UNCHANGED <<op, searchVars, pubVars, discVars, input, output, contVars,
                 gpc, handlerCalls, filterCalls, granules>>

\* I.asyncToArray takes the next granule
ArrayTakes ==
  /\ op = "dispatch" /\ gpc = "collecting" /\ pending # <<>>
  /\ granules' = Append(granules, Head(pending))
  /\ pending' = Tail(pending)
  /\ UNCHANGED <<op, searchVars, pubVars, discVars, input, output, contVars,
                 gpc, handlerCalls, filterCalls, pulled>>

\* the filter's result is at its end: return { ...result, granules }
DispatchReturns ==
  /\ op = "dispatch" /\ gpc = "collecting"
  /\ pulled = Len(Selected) /\ pending = <<>>
  /\ gpc' = "returned"
  /\ output' = {[granules |-> returnedGranules(input.dryRun, granules)]}
  /\ UNCHANGED <<op, searchVars, pubVars, discVars, input, contVars,
                 handlerCalls, filterCalls, pulled, pending, granules>>

\* the consumer asks for the next item and the latest page has one left
ThingYielded ==
  /\ op = "continuous" /\ cpc = "running" /\ pageItems # <<>>
  /\ things' = Append(things, Head(pageItems))
  /\ pageItems' = Tail(pageItems)
  /\ UNCHANGED <<op, searchVars, pubVars, discVars, input, output, dispVars,
                 cpc, pagesRequested, listError>>

\* the consumer asks for the next item and the latest page has none left:
\* getPage fetches the next page; checkResponse throws, or the page is empty
\* and the generator ends, or its first item is yielded
GetPage ==
  /\ op = "continuous" /\ cpc = "running" /\ pageItems = <<>>
  /\ pagesRequested' = Append(pagesRequested, Seed)
  /\ IF ~lister(input.pages, Seed).ok
       THEN /\ cpc' = "failed" /\ listError' = {Seed}
            /\ UNCHANGED <<pageItems, things>>
       ELSE LET r == getPage(input.pages, Seed) IN
            /\ listError' = listError
            /\ IF r.more
                 THEN /\ things' = Append(things, Head(r.items))
                      /\ pageItems' = Tail(r.items)
                      /\ cpc' = cpc
                 ELSE /\ cpc' = "done"
                      /\ UNCHANGED <<pageItems, things>>
  /\ UNCHANGED <<op, searchVars, pubVars, discVars, input, output, dispVars>>

\* findConcepts builds the options of the first request, the answer to it
\* holds records and the scroll id input.token (or none), and pagedSearch
\* builds the options of the second request
FirstRequests ==
  /\ op = "requests" /\ output = {}
  /\ LET first == firstOptions(input.queryParams, input.now)
         response == [status |-> 200, data |-> <<1>>, hits |-> 1, scrollId |-> input.token]
     IN output' = {[first |-> first,
                    second |-> pagedSearch(first, 0, 0, response).options]}
  /\ UNCHANGED <<op, input, searchVars, pubVars, discVars, procVars>>

\* pagedSearch for a page after the first: _hits and _count come from the
\* earlier pages (input.hits, input.count), the answer is input.response,
\* whose cmr-hits header is response.hits (0: no header)
LaterPage ==
  /\ op = "laterPage" /\ output = {}
  /\ output' = {pagedSearch(input.options, input.hits, input.count, input.response)}
  /\ UNCHANGED <<op, input, searchVars, pubVars, discVars, procVars>>

Next ==
  \/ PageUndecodable
  \/ LaterPage
  \/ FirstRequests
  \/ ClearScrollSettles
  \/ ThingYielded
  \/ GetPage
  \/ InvokeHandler
  \/ InvokeFilter
  \/ BufferPulls
  \/ ArrayTakes
  \/ DispatchReturns
  \/ ToGranule
  \/ ToCanonicalQueryParams
  \/ ToCanonicalHeaders
  \/ ExponentiallyDelay
  \/ DiscoverGranules
  \/ PipeNext
  \/ PipeEnds
  \/ TakeGranule
  \/ PageArrives
  \/ PageRetried
  \/ PageFails
  \/ ConsumerNext
  \/ ConsumerStops
  \/ StartPublish
  \/ Validate
  \/ PutSucceeds
  \/ PutRetried
  \/ PutFails
  \/ DeleteSucceeds
  \/ DeleteRetried
  \/ DeleteFails

Spec == Init /\ [][Next]_vars

\* A search against a server that answers every request, followed to the point
\* where the server has no more data and beyond
DrainInit == Init /\ op = "search"

DrainNext ==
  \/ PageArrives
  \/ ConsumerNext
  \/ DrainSend
  \/ DrainAnswer
  \/ ClearScrollSettles

\* pagedSearch runs on whenever it has a request to send, and every request in
\* flight is answered
DrainSpec ==
  DrainInit /\ [][DrainNext]_vars /\ WF_vars(DrainSend) /\ WF_vars(DrainAnswer)

----------------------------------------------------------------------------
(* Observations on the request log *)

\* a scroll id has been obtained: some answer carried a cmr-scroll-id header
FirstTokenAt == CHOOSE i \in 1..Len(pageResps) :
                  /\ pageResps[i].scrollId # NoToken
                  /\ \A j \in 1..(i - 1) : pageResps[j].scrollId = NoToken
HasToken == \E i \in 1..Len(pageResps) : pageResps[i].scrollId # NoToken
FirstToken == pageResps[FirstTokenAt].scrollId

No404 == \A i \in 1..Len(pageResps) : pageResps[i].status # 404

IsPrefix(p, q) == Len(p) <= Len(q) /\ \A i \in 1..Len(p) : p[i] = q[i]

\* the state right after pagedSearch has handled an answer: no later request
\* has been sent
JustAnswered == Len(pageResps) > 0 /\ Len(pageReqs) = Len(pageResps) /\ gets = 0

\* statuses retry-axios retries unconditionally up to raxConfig.retry times
RetryableStatuses == (100..199) \cup {429} \cup (500..599)

----------------------------------------------------------------------------
(* Claims *)

\* C1: a search whose answers declare cmr-hits = N and whose server serves the
\* N records over non-empty pages followed by an empty page (no 404 among the
\* answers) yields the records in page order, each once, and has yielded
\* exactly the N records when it ends.
C1_YieldsExactlyHits ==
  (op = "search" /\ No404) =>
     /\ IsPrefix(yielded, Range(1, srvTotal))
     /\ (spc = "closed" => yielded = Range(1, srvTotal) /\ hits = srvTotal)

C1_Witness ==
  /\ spc = "closed" /\ No404 /\ Len(yielded) = 3 /\ Len(pageResps) >= 3

\* C2: in a scrolled search, every page request after the first answer that
\* carried a scroll id carries that scroll id and the page number of the
\* request that obtained it; a later 2xx page with zero records is the last
\* answer of the search, which is then closed with every record of the
\* earlier pages yielded and exactly one clear-scroll call, for that first id.
C2_ScrollContinuation ==
  (op = "search" /\ options.scroll /\ HasToken) =>
     /\ \A i \in (FirstTokenAt + 1)..Len(pageReqs) :
           /\ pageReqs[i].scrollId = FirstToken
           /\ pageReqs[i].pageNum = pageReqs[FirstTokenAt].pageNum
     /\ \A i \in (FirstTokenAt + 1)..Len(pageResps) :
           (pageResps[i].status = 200 /\ pageResps[i].n = 0) =>
              /\ i = Len(pageResps) /\ Len(pageReqs) = i
              /\ spc = "closed"
              /\ page = <<>> /\ yielded = Range(1, srvCursor)
              /\ clearScrolls = <<FirstToken>>

C2_Witness ==
  /\ options.scroll /\ spc = "closed" /\ Len(pageResps) = 3 /\ Len(yielded) = 3
  /\ pageResps[1].scrollId = "T1" /\ pageResps[2].scrollId = "T2"
  /\ Last(pageResps).status = 200 /\ Last(pageResps).n = 0
  /\ clearScrolls = <<"T1">>

\* C3: one search issues the clear-scroll request at most once, however it ends.
C3_ClearScrollAtMostOnce == op = "search" => Len(clearScrolls) <= 1

C3_Witness ==
  /\ spc = "closed" /\ Len(clearScrolls) = 1
  /\ \E i \in 1..Len(pageResps) : pageResps[i].status = 404

C5_Original ==
  (op = "search" /\ spc = "stopped" /\ getScrollId(options) # NoToken) =>
     /\ clearScrolls = <<getScrollId(options)>>
     /\ Len(pageReqs) = Len(pageResps)

----------------------------------------------------------------------------
(* Claims on publishing *)

IsDelete(entry) == entry.method = "DELETE"

\* the granule UR is the data type, a dot, and rest
IsPrefixed(ur, dt, rest) == ur = dt \o <<".">> \o rest

\* C7: a PUT answered with a parent-change 422 is followed by a DELETE for the
\* same granule UR and then by the PUT again, in that order (the requests of a
\* call alternate PUT, DELETE, PUT, ... on one UR, and after the parent-change
\* answer the DELETE is what comes next); a PUT answered 201 makes the publish
\* succeed with that response.
C7_DeleteThenPutAgain ==
  (op = "publish" /\ ppc # "idle") =>
     /\ \A i \in 1..Len(httpLog) :
           /\ httpLog[i].ur = CurrentUR
           /\ httpLog[i].method = (IF i % 2 = 1 THEN "PUT" ELSE "DELETE")
     /\ lastPut = {ParentChange} =>
           \/ ppc = "delete" /\ (IsDelete(Last(httpLog)) <=> delAttempt > 0)
           \/ ppc = "put" /\ IsDelete(Last(httpLog)) /\ lastDel = {200}
           \/ ppc = "failed" /\ IsDelete(Last(httpLog)) /\ Last(callResults).via = "DELETE"
     /\ lastPut = {PutCreated} <=> ppc = "published"
     /\ ppc = "published" =>
           /\ Last(callResults) = [ok |-> TRUE, status |-> 201, via |-> "PUT"]
           /\ hpc = "done" /\ handlerError = {}

C7_Witness ==
  /\ ppc = "published" /\ nPut = 2 /\ nDelete = 1
  /\ httpLog = << [method |-> "PUT", ur |-> granuleUR],
                  [method |-> "DELETE", ur |-> granuleUR],
                  [method |-> "PUT", ur |-> granuleUR] >>

\* C8: when the DELETE issued after a parent-change conflict fails (for good:
\* not retried any more), publishGranule fails with the error of the DELETE
\* and sends no further PUT.
C8_DeleteFailureIsFatal ==
  (op = "publish" /\ lastDel # {} /\ \A st \in lastDel : ~isSuccess(st)) =>
     \/ ppc = "delete" /\ delAttempt > 0
     \/ /\ ppc = "failed"
        /\ Last(callResults).via = "DELETE"
        /\ {Last(callResults).status} = lastDel
        /\ IsDelete(Last(httpLog))
        /\ lastPut = {ParentChange}

C8_Witness ==
  /\ ppc = "failed" /\ lastDel = {404} /\ nPut = 1 /\ nDelete = 1
  /\ Last(callResults) = [ok |-> FALSE, status |-> 404, via |-> "DELETE"]

\* C9 as stated: after a conflict resolved by a DELETE the PUT is re-issued
\* once and its outcome is final: a re-issued PUT answered with a
\* parent-change 422 again makes publishGranule fail, with no second DELETE
\* and no further PUT.
C9_Original ==
  (op = "publish" /\ Len(httpLog) >= 3 /\ lastPut = {ParentChange}) =>
     ppc = "failed" /\ Len(httpLog) = 3

\* C10: the handler calls CMR.publishGranule with the granule UR; when that
\* first call fails with status 409 and the UR is "<dataType>." followed by
\* rest, it calls once more, with rest, and ends with the outcome of that
\* call; after any other failure it throws the error of the first call and
\* calls no more.
C10_PrefixStrippedOnce ==
  (op = "publish" /\ ~dryRun) =>
     /\ Len(publishCalls) <= 2
     /\ Len(publishCalls) >= 1 => publishCalls[1] = granuleUR
     /\ Len(callResults) >= 1 =>
          LET first == callResults[1] IN
            IF ~first.ok /\ first.status = 409
                 /\ \E n \in 0..Len(granuleUR) :
                      IsPrefixed(granuleUR, dataType, SubSeq(granuleUR, n + 1, Len(granuleUR)))
              THEN /\ Len(publishCalls) = 2 /\ hpc # "publishing"
                   /\ IsPrefixed(granuleUR, dataType, publishCalls[2])
              ELSE /\ Len(publishCalls) = 1
                   /\ hpc = IF first.ok THEN "done" ELSE "failed"
                   /\ handlerError = IF first.ok THEN {} ELSE {first.status}
     /\ Len(callResults) = 2 =>
          /\ hpc = IF callResults[2].ok THEN "done" ELSE "failed"
          /\ handlerError = IF callResults[2].ok THEN {} ELSE {callResults[2].status}

C10_Witness ==
  /\ publishCalls = << <<"D", ".", "D", ".", "g">>, <<"D", ".", "g">> >>
  /\ Len(callResults) = 2 /\ callResults[2].status = 409 /\ hpc = "failed"

----------------------------------------------------------------------------
(* Claims on duplicate handling *)

Indices == [i \in 1..Len(candidates) |-> i]

\* the candidates of the duplicate filter: granules with at least one file
WithFiles == SelectSeq(Indices, LAMBDA i : candidates[i].files > 0)

\* those of them without record in the granules table
Unrecorded ==
  SelectSeq(Indices, LAMBDA i : candidates[i].files > 0 /\ ~candidates[i].recorded)

\* those of them with a record
Duplicates == {i \in 1..Len(candidates) : candidates[i].files > 0 /\ candidates[i].recorded}

FirstDuplicate == {i \in Duplicates : \A j \in Duplicates : i <= j}

\* C11: under policy "skip" the consumer receives, in search order, exactly the
\* granules with at least one file for which the already-recorded predicate is
\* false, and no error is raised for the recorded ones.
C11_SkipYieldsUnrecorded ==
  (op = "discover" /\ policy = "skip") =>
     /\ IsPrefix(delivered, Unrecorded)
     /\ discError = {} /\ dpc \notin {"threw", "failed"}
     /\ dpc = "done" => delivered = Unrecorded

C11_Witness ==
  /\ policy = "skip" /\ dpc = "done" /\ Len(candidates) = 2
  /\ candidates[1] = [files |-> 1, recorded |-> TRUE]
  /\ candidates[2] = [files |-> 1, recorded |-> FALSE]
  /\ delivered = <<2>> /\ consulted = <<1, 2>>

\* C12: under policy "error" the first granule (with at least one file) for
\* which the predicate is true makes the discovery fail with an error naming
\* it; the consumer receives the granules before it and none after it, and
\* the discovery never ends normally.
C12_ErrorAbortsDiscovery ==
  (op = "discover" /\ policy = "error") =>
     /\ IsPrefix(delivered, WithFiles)
     /\ \A i \in 1..Len(delivered) : \A k \in Duplicates : delivered[i] < k
     /\ (dpc = "done" => Duplicates = {})
     /\ (dpc \in {"threw", "failed"} => Duplicates # {} /\ cursor = 1 + Last(consulted)
                                         /\ {Last(consulted)} = FirstDuplicate)
     /\ (dpc = "failed" <=> discError # {})
     /\ (dpc = "failed" => discError = FirstDuplicate /\ buffer = <<>>)

C12_Witness ==
  /\ policy = "error" /\ dpc = "failed" /\ Len(candidates) = 3
  /\ \A i \in 1..3 : candidates[i] = [files |-> 1, recorded |-> (i = 2)]
  /\ delivered = <<1>> /\ discError = {2}

\* C13: under policies "replace" and "version" the predicate is never
\* consulted and every granule with at least one file is delivered, recorded
\* or not.
C13_ReplaceVersionNeverFilter ==
  (op = "discover" /\ policy \in {"replace", "version"}) =>
     /\ consulted = <<>>
     /\ IsPrefix(delivered, WithFiles)
     /\ discError = {} /\ dpc \notin {"threw", "failed"}
     /\ dpc = "done" => delivered = WithFiles

C13_Witness ==
  /\ policy = "version" /\ dpc = "done" /\ Len(candidates) = 3
  /\ candidates[1] = [files |-> 1, recorded |-> TRUE]
  /\ candidates[2] = [files |-> 0, recorded |-> TRUE]
  /\ candidates[3] = [files |-> 1, recorded |-> FALSE]
  /\ delivered = <<1, 3>>

Given(v) == v \notin {Undefined, Null}

\* C14 as stated: the policy is the override if given, otherwise the
\* collection's duplicateHandling if given, otherwise "skip".
C14_Original ==
  (op = "discover" /\ dpc # "called") =>
     policy = IF Given(override) THEN override
              ELSE IF Given(collectionDH) THEN collectionDH
              ELSE "skip"

----------------------------------------------------------------------------
(* Claims on the retry delay *)

\* 2^(k-1) * 1000 capped at 32000 (the cap is reached at k = 6)
CappedPower(k) == IF k >= 6 THEN 32000 ELSE Pow(2, k - 1) * 1000

\* C15 as stated: the delay before retry attempt k is
\* min(32000, (2^(k-1) + j) * 1000) ms for a jitter j in [0, 1): never above
\* 32000 ms and never below min(32000, 2^(k-1) * 1000) ms.
C15_Original ==
  (op = "delay" /\ output # {}) =>
     \A delayMillis \in output :
        /\ delayMillis <= 32000
        /\ delayMillis >= CappedPower(input.attempt)
        /\ \E j \in 0..999 : delayMillis = Min(32000, CappedPower(input.attempt) + j)

Called(o) == op = o /\ output # {}
Result == CHOOSE r \in output : TRUE

\* two objects are equal when they hold the same values under the same names
SameObject(a, b) ==
  {a[i] : i \in 1..Len(a)} = {b[i] : i \in 1..Len(b)} /\ Len(a) = Len(b)

\* C16 (as stated): normalising twice gives what normalising once gives, for
\* toCanonicalQueryParams at one clock instant and for toCanonicalHeaders.
C16_Original ==
  (Called("queryParams") \/ Called("headers")) => SameObject(Result.twice, Result.once)

\* the temporal value given and the timestamp of the call
GivenTemporal == prop(TemporalName, input.queryParams)
Timestamp == toISOString(input.now)
Occurrences(str) == {i \in 1..Len(str) : matchesNow(str, i)}
InOccurrence(str, i) == \E j \in Occurrences(str) : j <= i /\ i <= j + 2
\* where the character at i of the given value stands in the result
Moved(str, i) ==
  i + Cardinality({j \in Occurrences(str) : j < i}) * (Len(Timestamp) - 3)
SubstitutedTemporal == prop(TemporalName, Result.once)

\* C17: in the result of one call every occurrence of "now", in any letter
\* case, of the temporal value stands replaced by the one timestamp of the
\* call and every other character is kept: "P56D/now" gives "P56D/T" and
\* "now/now" gives "T/T".
C17_NowReplacedBySameTimestamp ==
  (Called("queryParams") /\ truthy(GivenTemporal)) =>
    LET str == GivenTemporal
        r == SubstitutedTemporal
    IN /\ Len(r) = Len(str) + Cardinality(Occurrences(str)) * (Len(Timestamp) - 3)
       /\ \A i \in Occurrences(str) :
            SubSeq(r, Moved(str, i), Moved(str, i) + Len(Timestamp) - 1) = Timestamp
       /\ \A i \in 1..Len(str) : ~InOccurrence(str, i) => r[Moved(str, i)] = str[i]
       /\ str = <<"P", "5", "6", "D", "/", "n", "o", "w">>
            => r = <<"P", "5", "6", "D", "/">> \o Timestamp
       /\ str = <<"n", "o", "w", "/", "n", "o", "w">>
            => r = Timestamp \o <<"/">> \o Timestamp

C17_Witness ==
  /\ Called("queryParams")
  /\ GivenTemporal = <<"N", "o", "w", "/", "n", "O", "W">>
  /\ SubstitutedTemporal = Timestamp \o <<"/">> \o Timestamp

\* the distribution entry that belongs to a file: the first with the name at
\* the end of the file's URL, or the only entry of the record for a data file
Matching(umm, file) ==
  LET entries == umm.ArchiveAndDistributionInformation
      sized == {i \in 1..Len(entries) : entries[i].Size # 0 \/ entries[i].SizeInBytes # 0}
      named == {i \in sized : entries[i].Name = file.name}
  IN IF named # {} THEN {entries[CHOOSE i \in named : \A j \in named : i <= j]}
     ELSE IF file.type = "data" /\ Cardinality(sized) = 1 THEN {entries[i] : i \in sized}
     ELSE {}

KnownUnits == {"KB", "MB", "GB", "TB", "PB"}

\* is bytes the whole number nearest to Size * 1024^k?  (2 * |bytes - product| <= 1,
\* and < 1 from above, as halves go up)
IsRounded(bytes, entry) ==
  LET product == timesUnitFactor(entry.Size, entry.SizeUnit)
  IN (bytes = product.q /\ 2 * product.r < SizeScale)
       \/ (bytes = product.q + 1 /\ 2 * product.r >= SizeScale)

\* C18 (as stated): every file of a discovered granule carries a size, the
\* rounded Size * 1024^k of its matching distribution entry; Size 0.501126289
\* in MB gives 525469.
C18_Original ==
  Called("toGranule") =>
    \A i \in 1..Len(Result.files) :
      \A entry \in Matching(input.umm, Result.files[i]) :
        (entry.Size # 0 /\ entry.SizeInBytes = 0 /\ entry.SizeUnit \in KnownUnits) =>
          /\ "size" \in DOMAIN Result.files[i]
          /\ IsRounded(Result.files[i].size, entry)

\* the k-th of the handler's granules that the filter of this run keeps
KeptIndices ==
  {i \in 1..Len(input.result.granules) :
     input.filter.configured => input.result.granules[i] \in input.filter.keeps}
KthKept(k) == CHOOSE i \in KeptIndices : Cardinality({j \in KeptIndices : j <= i}) = k

\* C19: when dispatchDiscoverGranules returns, the handler and the filter were
\* each invoked and the filter's result was consumed to its end; in a dry run
\* the granules returned are none, otherwise they are the granules the filter
\* kept, in the handler's order, which without a configured filter are all.
C19_DryRunReturnsNothing ==
  (op = "dispatch" /\ gpc = "returned") =>
    /\ handlerCalls = 1 /\ filterCalls = 1
    /\ Len(granules) = Cardinality(KeptIndices)
    /\ \A k \in 1..Len(granules) : granules[k] = input.result.granules[KthKept(k)]
    /\ IF truthy(input.dryRun)
         THEN Result.granules = <<>>
         ELSE Result.granules = granules

C19_Witness ==
  /\ op = "dispatch" /\ gpc = "returned"
  /\ input.dryRun = One /\ input.filter.configured
  /\ Len(granules) = 2 /\ Len(input.result.granules) = 3
  /\ Result.granules = <<>>

\* the first page that has no results or that checkResponse rejects
FirstStop ==
  CHOOSE p \in 1..(Len(input.pages) + 1) :
    /\ lister(input.pages, p) \in {EmptyPage, [ok |-> FALSE, n |-> 0]}
    /\ \A q \in 1..(p - 1) : lister(input.pages, q).n > 0
ItemsBeforeStop == {<<p, i>> : p \in 1..(FirstStop - 1), i \in 1..MaxPageSize} \cap
                     {pi \in (1..MaxPages) \X (1..MaxPageSize) : pi[2] <= lister(input.pages, pi[1]).n}
ComesBefore(a, b) == a[1] < b[1] \/ (a[1] = b[1] /\ a[2] < b[2])

\* C20: the pages requested are 1, 2, 3, ... in this order and none follows
\* the first page without results; the items yielded are items of the pages
\* before it, in page order and in the order within the page; when the
\* generator ends it has yielded all of them and the last page requested is
\* the first without results.
C20_PagesInOrderUntilEmpty ==
  op = "continuous" =>
    /\ \A k \in 1..Len(pagesRequested) : pagesRequested[k] = k
    /\ Len(pagesRequested) <= FirstStop
    /\ \A k \in 1..Len(things) : things[k] \in ItemsBeforeStop
    /\ \A k \in 1..(Len(things) - 1) : ComesBefore(things[k], things[k + 1])
    /\ cpc = "done" =>
         /\ {things[k] : k \in 1..Len(things)} = ItemsBeforeStop
         /\ Len(pagesRequested) = FirstStop
         /\ lister(input.pages, FirstStop) = EmptyPage

C20_Witness ==
  /\ op = "continuous" /\ cpc = "done"
  /\ pagesRequested = <<1, 2>>
  /\ Len(input.pages) = 3 /\ input.pages[3].n > 0
  /\ Len(things) = 2

\* C21: once a page request has failed for good with a scroll token held, a
\* clear-scroll request for that token has been issued; the error the consumer
\* receives is that of the page request, before and after the clear-scroll
\* request is answered, and no failure of a clear-scroll request is thrown.
C21_ClearScrollBestEffort ==
  (op = "search" /\ spc = "failed") =>
    /\ getScrollId(options) # NoToken =>
         (clearScrolls # <<>> /\ clearScrolls[Len(clearScrolls)] = getScrollId(options))
    /\ \/ decodeError # {} /\ searchError = {}
       \/ \E status \in SearchFailures :
            /\ searchError = {status} /\ status \in seen
            /\ ~shouldRetryRequest("GET", status, attempt)
            /\ decodeError = {}
    /\ \A i \in 1..Len(clearOutcomes) : ~clearOutcomes[i].thrown

C21_Witness ==
  /\ op = "search" /\ spc = "failed"
  /\ getScrollId(options) # NoToken
  /\ searchError = {429} /\ attempt = Retry
  /\ clearOutcomes # <<>>
  /\ clearOutcomes[1].scrollId = getScrollId(options)
  /\ clearOutcomes[1].failed

\* C22: a DELETE is issued only while the last PUT stands answered with a
\* parent-change 422; a PUT answered 422 without that message ends the call in
\* failure with this PUT as its last request; a PUT that failed with 429, 5xx
\* or no response is followed by no DELETE, and a call whose PUTs failed only
\* in these ways has issued no DELETE.
C22_DeleteOnlyOnParentChange ==
  (op = "publish" /\ ppc # "idle") =>
    /\ ppc = "delete" => lastPut = {ParentChange}
    /\ nDelete > 0 => 422 \in putSeen
    /\ lastPut = {[status |-> 422, parentMsg |-> FALSE]} =>
         /\ ppc = "failed" /\ handlerError = {422}
         /\ Last(httpLog).method = "PUT"
         /\ Last(callResults) = [ok |-> FALSE, status |-> 422, via |-> "PUT"]
    /\ \A answer \in lastPut :
         answer.status \in {NoResponse, 429, 500} =>
           /\ ppc \in {"put", "failed"}
           /\ Last(httpLog).method = "PUT"
           /\ ppc = "put" => putAttempt > 0
    /\ putSeen \subseteq {NoResponse, 429, 500} => nDelete = 0

C22_Witness ==
  /\ op = "publish" /\ ppc = "failed"
  /\ lastPut = {[status |-> 422, parentMsg |-> FALSE]}
  /\ putSeen = {429, 422} /\ nPut = 3 /\ nDelete = 0

\* C23: every granule delivered has at least one file, the already-recorded
\* predicate is consulted only for granules with at least one file, and under
\* policy "error" the granule named by the error has a file: a recorded granule
\* without files lets the discovery go on to its normal end.
C23_ZeroFilesDroppedFirst ==
  op = "discover" =>
    /\ \A k \in 1..Len(delivered) : candidates[delivered[k]].files > 0
    /\ \A k \in 1..Len(consulted) : candidates[consulted[k]].files > 0
    /\ \A k \in 1..Len(buffer) : candidates[buffer[k].id].files > 0
    /\ \A id \in discError : candidates[id].files > 0
    /\ (policy = "error" /\ dpc \in {"drained", "done"}) =>
         \A i \in 1..Len(candidates) :
           candidates[i].recorded => (candidates[i].files = 0 /\ i < cursor)

C23_Witness ==
  /\ op = "discover" /\ policy = "error" /\ dpc = "done"
  /\ Len(candidates) = 2
  /\ candidates[1] = [files |-> 0, recorded |-> TRUE]
  /\ candidates[2] = [files |-> 1, recorded |-> FALSE]
  /\ delivered = <<2>> /\ consulted = <<2>>

\* C24: the buffer never holds more than 16 results the consumer has not
\* taken, and while it holds 16 the search is asked for nothing (no record is
\* pulled, so no page is requested): the only step is the consumer's.
C24_BoundedReadAhead ==
  [][op = "discover" =>
       /\ Len(buffer') <= BufferSize
       /\ Len(buffer) >= BufferSize =>
            (cursor' = cursor /\ dpc' = dpc /\ Len(buffer') < Len(buffer))]_vars

C24_Witness ==
  /\ op = "discover" /\ dpc = "running"
  /\ Len(buffer) = BufferSize /\ cursor <= Len(candidates)
  /\ delivered # <<>>

\* C25 (as stated): when scroll is requested, neither the first request nor the
\* one after it carries a pageNum, whatever the caller supplied and whether or
\* not the answer held a scroll id.
C25_Original ==
  (Called("requests") /\ Result.first.scroll) =>
    (Result.first.pageNum = 0 /\ Result.second.pageNum = 0)

\* C26 (as stated): the total hits are read from the first page and stay fixed:
\* a different cmr-hits value on a later page does not change the total that
\* pagedSearch logs, counts against and uses in its 404 decision.
C26_Original ==
  Called("laterPage") => Result.hits = input.hits

\* C27 (as stated): in every state of a search the cumulative count lies
\* between 0 and the total hits, give or take the off-by-one, also after 404
\* pages whose skipped size was added to the count.
C27_Original ==
  op = "search" => (0 <= count /\ count <= hits + 1)

C29_Original ==
  (op = "search" /\ spc \in {"fetching", "awaiting"} /\ Drained)
    ~> (spc \in {"closed", "failed"})

\* C30 (as stated): one call of CMR.publishGranule issues at most 7 PUT and at
\* most 6 DELETE requests, whatever the server answers.
C30_Original ==
  op = "publish" => (nPut <= Retry + 1 /\ nDelete <= Retry)

TypeOK ==
  /\ spc \in {"idle", "fetching", "awaiting", "suspended", "closed", "failed", "stopped"}
  /\ hpc \in {"idle", "start", "publishing", "republishing", "done", "failed"}
  /\ ppc \in {"idle", "put", "delete", "published", "failed"}
  /\ attempt \in 0..Retry
  /\ delAttempt \in 0..Retry
====
